---- MODULE Spec2Model ----
(***************************************************************************)
(* A model of the bias-free backtesting core of kr-stock-screener:          *)
(*   - PointInTimeManager        (core/processors/point_in_time.py)         *)
(*   - DelistedStockCollector    (core/collectors/delisted_stocks.py)       *)
(*   - AdjustedPriceCalculator   (core/processors/adjusted_price.py)        *)
(*   - SimpleBacktester          (analyzers/backtester.py)                  *)
(* Each component has a specification of its own (SpecPIT, SpecListing,     *)
(* SpecAdj, SpecBacktest) over the same variables; the variables of the     *)
(* other components stay at their idle values.                              *)
(*                                                                          *)
(* Conventions.  A datetime.date is its proleptic Gregorian ordinal (an     *)
(* integer, as date.toordinal()), so that date comparison is integer        *)
(* comparison.  NaT (an empty cell of a date column) is 0 and None is -1,   *)
(* which no date has.  A DataFrame is a record [columns, rows]; every row keeps   *)
(* its index label in the field "index".  A float is an exact rational      *)
(* [n, d] in lowest terms (rounding is not modelled).  "call" is the last   *)
(* operation invoked with its arguments, "ret" what it returned.            *)
(***************************************************************************)
EXTENDS Integers, Sequences, FiniteSets, TLC

VARIABLES
    financials,       \* PointInTimeManager.financials
    cached_delisted,  \* DelistedStockCollector.cached_delisted
    actions,          \* AdjustedPriceCalculator.actions
    bt,               \* SimpleBacktester.run: its arguments and local state
    call,             \* the last operation called, with its arguments
    ret               \* the value the last operation returned

vars == <<financials, cached_delisted, actions, bt, call, ret>>

----------------------------------------------------------------------------
(* Values shared by the components                                          *)

\* NaT / NaN: an empty cell of a date column
NaT == 0

\* None in a date position, before pd.to_datetime
PyNone == -1

isna(x) == x \in {NaT, PyNone}

\* pd.to_datetime(column).dt.date on one cell: None becomes NaT
to_date(x) == IF x = PyNone THEN NaT ELSE x

NoneValue == [kind |-> "None"]

IsNoneValue(x) == "kind" \in DOMAIN x /\ x.kind = "None"

NoCall == [op |-> "none"]

\* datetime.date(y, m, d).toordinal()
IsLeap(y) == (y % 4 = 0) /\ ((y % 100 # 0) \/ (y % 400 = 0))

DaysBeforeYear(y) ==
    LET p == y - 1 IN p * 365 + (p \div 4) - (p \div 100) + (p \div 400)

DaysInMonth(y, m) ==
    IF m = 2 THEN (IF IsLeap(y) THEN 29 ELSE 28)
    ELSE IF m \in {4, 6, 9, 11} THEN 30 ELSE 31

RECURSIVE DaysBeforeMonth(_, _)
DaysBeforeMonth(y, m) ==
    IF m = 1 THEN 0 ELSE DaysBeforeMonth(y, m - 1) + DaysInMonth(y, m - 1)

Date(y, m, d) == DaysBeforeYear(y) + DaysBeforeMonth(y, m) + d

Range(s) == {s[i] : i \in 1..Len(s)}

\* pd.DataFrame(): no columns, no rows
EmptyFrame == [columns |-> {}, rows |-> <<>>]

Frame(cols, rows) == [columns |-> cols, rows |-> rows]

\* the rows of a frame of at most n rows drawn from RowSet, labelled 1..Len
RECURSIVE SeqsUpTo(_, _)
SeqsUpTo(S, n) ==
    IF n = 0 THEN {<<>>}
    ELSE LET shorter == SeqsUpTo(S, n - 1)
         IN  shorter \cup {Append(s, x) : s \in {t \in shorter : Len(t) = n - 1}, x \in S}

Labelled(rows) == [i \in 1..Len(rows) |-> [rows[i] EXCEPT !.index = i]]

\* a mutant of head: nothing is cut
head_everything(rows, n) == rows

\* DataFrame.head(n), n >= 0
head(rows, n) == SubSeq(rows, 1, IF Len(rows) < n THEN Len(rows) ELSE n)

\* a mutant of caller_frame: the columns written to the caller's frame
caller_frame_written(frame, result) == result

\* result = frame.copy() (adjusted_price.py line 71, delisted_stocks.py line
\* 100): every column the call adds or changes is written to "result", the
\* copy, so the caller's frame after the call is the frame as it was passed
caller_frame(frame, result) == frame

\* an exception leaving the operation
Raised(error) == [kind |-> "raise", error |-> error]

----------------------------------------------------------------------------
(* PointInTimeManager                                                       *)

MaxFinRows == 2

StockCodes == {"005930", "000660"}

FiscalPeriods == {<<2022, "FY">>, <<2023, "1Q">>, <<2023, "3Q">>, <<2023, "4Q">>}

\* explicit announced_at values of the input rows (None: the cell is empty)
ExplicitAnnounced == {PyNone, Date(2023, 3, 20), Date(2023, 11, 20)}

AsOfDates ==
    {Date(2023, 3, 20), Date(2023, 3, 31), Date(2023, 5, 15),
     Date(2023, 11, 15), Date(2023, 11, 20), Date(2024, 3, 31)}

FinRowsWithAnnounced ==
    {[index |-> 0, stock_code |-> c, fiscal_year |-> p[1], fiscal_quarter |-> p[2],
      announced_at |-> a] : c \in StockCodes, p \in FiscalPeriods, a \in ExplicitAnnounced}

FinRowsPlain ==
    {[index |-> 0, stock_code |-> c, fiscal_year |-> p[1], fiscal_quarter |-> p[2]]
        : c \in StockCodes, p \in FiscalPeriods}

FinColumnsPlain == {"stock_code", "fiscal_year", "fiscal_quarter"}

FinancialTables ==
    {NoneValue}
    \cup {Frame(FinColumnsPlain \cup {"announced_at"}, Labelled(rows))
            : rows \in SeqsUpTo(FinRowsWithAnnounced, MaxFinRows)}
    \cup {Frame(FinColumnsPlain, Labelled(rows))
            : rows \in SeqsUpTo(FinRowsPlain, MaxFinRows)}

\* the quarterly history of one entity, an annual record among it, and a
\* quarterly record of another entity
QuarterHistory ==
    <<[index |-> 0, stock_code |-> "005930", fiscal_year |-> 2022, fiscal_quarter |-> "3Q",
       revenue |-> 1, operating_income |-> 11, net_income |-> -39],
      [index |-> 0, stock_code |-> "005930", fiscal_year |-> 2022, fiscal_quarter |-> "4Q",
       revenue |-> 2, operating_income |-> 21, net_income |-> -38],
      [index |-> 0, stock_code |-> "005930", fiscal_year |-> 2022, fiscal_quarter |-> "FY",
       revenue |-> 4, operating_income |-> 41, net_income |-> -36],
      [index |-> 0, stock_code |-> "005930", fiscal_year |-> 2023, fiscal_quarter |-> "1Q",
       revenue |-> 8, operating_income |-> 81, net_income |-> -32],
      [index |-> 0, stock_code |-> "005930", fiscal_year |-> 2023, fiscal_quarter |-> "2Q",
       revenue |-> 16, operating_income |-> 161, net_income |-> -24],
      [index |-> 0, stock_code |-> "005930", fiscal_year |-> 2023, fiscal_quarter |-> "3Q",
       revenue |-> 32, operating_income |-> 321, net_income |-> -8],
      [index |-> 0, stock_code |-> "000660", fiscal_year |-> 2023, fiscal_quarter |-> "2Q",
       revenue |-> 64, operating_income |-> 641, net_income |-> 24]>>

\* the same history with explicit announcement dates and the revenue only;
\* the oldest quarter was filed late
QuarterHistoryAnnounced ==
    [i \in 1..Len(QuarterHistory) |->
        [index |-> 0,
         stock_code |-> QuarterHistory[i].stock_code,
         fiscal_year |-> QuarterHistory[i].fiscal_year,
         fiscal_quarter |-> QuarterHistory[i].fiscal_quarter,
         revenue |-> QuarterHistory[i].revenue,
         announced_at |->
            IF i = 1 THEN Date(2023, 11, 20)
            ELSE IF QuarterHistory[i].fiscal_quarter \in {"FY", "4Q"}
                 THEN Date(QuarterHistory[i].fiscal_year + 1, 3, 31)
            ELSE IF QuarterHistory[i].fiscal_quarter = "1Q"
                 THEN Date(QuarterHistory[i].fiscal_year, 5, 15)
            ELSE IF QuarterHistory[i].fiscal_quarter = "2Q"
                 THEN Date(QuarterHistory[i].fiscal_year, 8, 15)
            ELSE Date(QuarterHistory[i].fiscal_year, 11, 15)]]

MaxHistoryRows == 5

\* the records of a history whose positions are in S, in the order of the
\* history
RECURSIVE Picked(_, _, _)
Picked(history, S, k) ==
    IF k > Len(history) THEN <<>>
    ELSE (IF k \in S THEN <<history[k]>> ELSE <<>>) \o Picked(history, S, k + 1)

\* at most MaxHistoryRows positions of the history
HistoryPicks ==
    {S \in SUBSET (1..Len(QuarterHistory)) : Cardinality(S) <= MaxHistoryRows}

Reversed(s) == [i \in 1..Len(s) |-> s[Len(s) + 1 - i]]

AmountColumns == {"revenue", "operating_income", "net_income"}

\* tables of quarterly records, oldest first or newest first
QuarterlyTables ==
    {Frame(FinColumnsPlain \cup AmountColumns, Labelled(rows)) :
        rows \in {Picked(QuarterHistory, S, 1) : S \in HistoryPicks}
             \cup {Reversed(Picked(QuarterHistory, S, 1)) :
                        S \in HistoryPicks}}
    \cup
    {Frame(FinColumnsPlain \cup {"announced_at", "revenue"}, Labelled(rows)) :
        rows \in {Picked(QuarterHistoryAnnounced, S, 1) :
                        S \in HistoryPicks}
             \cup {Reversed(Picked(QuarterHistoryAnnounced, S, 1)) :
                        S \in HistoryPicks}}

\* tables without a fiscal_quarter column
NoQuarterTables ==
    {Frame({"stock_code", "fiscal_year"},
           <<[index |-> 1, stock_code |-> c, fiscal_year |-> 2022]>>) : c \in StockCodes}
    \cup
    {Frame({"stock_code", "fiscal_year", "announced_at"},
           <<[index |-> 1, stock_code |-> c, fiscal_year |-> 2022,
              announced_at |-> Date(2023, 3, 20)]>>) : c \in StockCodes}

estimate_announcement_date(fiscal_year, fiscal_quarter) ==
    IF fiscal_quarter = "FY" THEN Date(fiscal_year + 1, 3, 31)
    ELSE IF fiscal_quarter = "1Q" THEN Date(fiscal_year, 5, 15)
    ELSE IF fiscal_quarter = "2Q" THEN Date(fiscal_year, 8, 15)
    ELSE IF fiscal_quarter = "3Q" THEN Date(fiscal_year, 11, 15)
    ELSE Date(fiscal_year + 1, 3, 31)

\* a mutant of is_announced_by: the comparison turned round
is_announced_by_reversed(announced_at, as_of_date) ==
    ~isna(announced_at) /\ announced_at >= as_of_date

\* df['announced_at'] <= as_of_date, element by element: an empty cell (NaT)
\* compares False
is_announced_by(announced_at, as_of_date) ==
    ~isna(announced_at) /\ announced_at <= as_of_date

\* the announced_at column after lines 96-103: estimated for every row when
\* the frame has no such column, otherwise the column as it is
with_announced_at(df) ==
    IF "announced_at" \notin df.columns
    THEN Frame(df.columns \cup {"announced_at"},
               [i \in 1..Len(df.rows) |->
                   df.rows[i] @@
                   [announced_at |-> estimate_announcement_date(
                        df.rows[i].fiscal_year,
                        IF "fiscal_quarter" \in df.columns
                        THEN df.rows[i].fiscal_quarter ELSE "FY")]])
    ELSE df

get_available_financials(fin, stock_code, as_of_date) ==
    IF IsNoneValue(fin) THEN EmptyFrame
    ELSE IF fin.rows = <<>> THEN EmptyFrame
    ELSE LET df == Frame(fin.columns,
                         SelectSeq(fin.rows, LAMBDA r : r.stock_code = stock_code))
             estimated == with_announced_at(df)
             dated == Frame(estimated.columns,
                            [i \in 1..Len(estimated.rows) |->
                                [estimated.rows[i] EXCEPT !.announced_at = to_date(@)]])
         IN  IF df.rows = <<>> THEN df
             ELSE Frame(dated.columns,
                        SelectSeq(dated.rows,
                            LAMBDA r : is_announced_by(r.announced_at, as_of_date)))

\* sort_values('announced_at', ascending=False): the rows by descending
\* announcement date, rows of equal date in the order of the table
RECURSIVE sort_values_descending(_)
sort_values_descending(rows) ==
    IF rows = <<>> THEN <<>>
    ELSE LET x == rows[Len(rows)]
             front == sort_values_descending(SubSeq(rows, 1, Len(rows) - 1))
         IN  SelectSeq(front, LAMBDA r : r.announced_at >= x.announced_at)
             \o <<x>>
             \o SelectSeq(front, LAMBDA r : r.announced_at < x.announced_at)

\* the pd.Series of the latest announced available row, or None
get_latest_available(fin, stock_code, as_of_date) ==
    LET available == get_available_financials(fin, stock_code, as_of_date)
    IN  IF available.rows = <<>> THEN NoneValue
        ELSE sort_values_descending(available.rows)[1]

\* quarters[col].sum()
RECURSIVE column_sum(_, _)
column_sum(rows, col) ==
    IF rows = <<>> THEN 0 ELSE rows[1][col] + column_sum(Tail(rows), col)

\* quarters[col].sum() if col in quarters.columns else None
sum_if_present(quarters, col) ==
    IF col \in quarters.columns
    THEN [kind |-> "number", val |-> column_sum(quarters.rows, col)]
    ELSE NoneValue

\* the empty dictionary of line 155
EmptyDict == [kind |-> "dict", keys |-> {}]

\* lines 140-155.  sort_values raises KeyError on a frame that has no
\* announced_at column: the frame line 93 returns for an entity without rows
\* when the table has none.
get_ttm_available(fin, stock_code, as_of_date) ==
    LET available == get_available_financials(fin, stock_code, as_of_date)
    IN  IF "fiscal_quarter" \in available.columns
        THEN IF "announced_at" \notin available.columns
             THEN Raised("KeyError")
             ELSE LET isin == SelectSeq(available.rows,
                                 LAMBDA r : r.fiscal_quarter \in {"1Q", "2Q", "3Q", "4Q"})
                      quarters == Frame(available.columns,
                                        head(sort_values_descending(isin), 4))
                  IN  IF Len(quarters.rows) >= 4
                      THEN [kind |-> "dict",
                            keys |-> {"revenue_ttm", "operating_income_ttm",
                                      "net_income_ttm"},
                            revenue_ttm |-> sum_if_present(quarters, "revenue"),
                            operating_income_ttm |->
                                sum_if_present(quarters, "operating_income"),
                            net_income_ttm |-> sum_if_present(quarters, "net_income")]
                      ELSE EmptyDict
        ELSE EmptyDict

\* datetime.date.fromordinal(n).year
year_of(ordinal) ==
    LET n0 == ordinal - 1
        n400 == n0 \div 146097
        r400 == n0 % 146097
        n100 == r400 \div 36524
        r100 == r400 % 36524
        n4 == r100 \div 1461
        r4 == r100 % 1461
        n1 == r4 \div 365
        year == n400 * 400 + n100 * 100 + n4 * 4 + n1 + 1
    IN  IF n1 = 4 \/ n100 = 4 THEN year - 1 ELSE year

\* a mutant of default_announced_date: the estimate of the annual report
default_announced_date_march(data_date) == Date(year_of(data_date) + 1, 3, 31)

\* line 176: date(data_date.year + 1, 4, 1)
default_announced_date(data_date) == Date(year_of(data_date) + 1, 4, 1)

validate_no_lookahead(trade_date, data_date, announced_date) ==
    LET announced == IF announced_date = PyNone
                     THEN default_announced_date(data_date)
                     ELSE announced_date
    IN  trade_date >= announced

\* the arguments validate_no_lookahead is called with
TradeDates == {Date(2024, 1, 15), Date(2024, 3, 31), Date(2024, 4, 1)}

DataDates == {Date(2022, 12, 31), Date(2023, 6, 30), Date(2023, 12, 31)}

AnnouncedDates == {PyNone, Date(2024, 1, 15), Date(2024, 3, 31)}

\* the arguments estimate_announcement_date is called with
EstimateYears == {2022, 2023}

PeriodTags == {"FY", "1Q", "2Q", "3Q", "4Q"}

InitPIT ==
    /\ financials \in FinancialTables
    /\ cached_delisted = NoneValue
    /\ actions = <<>>
    /\ bt = NoneValue
    /\ call = NoCall
    /\ ret = NoneValue

GetAvailableFinancials ==
    \E c \in StockCodes, d \in AsOfDates :
        /\ call' = [op |-> "get_available_financials", stock_code |-> c, as_of_date |-> d]
        /\ ret' = get_available_financials(financials, c, d)
        /\ UNCHANGED <<financials, cached_delisted, actions, bt>>

GetLatestAvailable ==
    \E c \in StockCodes, d \in AsOfDates :
        /\ call' = [op |-> "get_latest_available", stock_code |-> c, as_of_date |-> d]
        /\ ret' = get_latest_available(financials, c, d)
        /\ UNCHANGED <<financials, cached_delisted, actions, bt>>

GetTtmAvailable ==
    \E c \in StockCodes, d \in AsOfDates :
        /\ call' = [op |-> "get_ttm_available", stock_code |-> c, as_of_date |-> d]
        /\ ret' = get_ttm_available(financials, c, d)
        /\ UNCHANGED <<financials, cached_delisted, actions, bt>>

EstimateAnnouncementDate ==
    \E y \in EstimateYears, q \in PeriodTags :
        /\ call' = [op |-> "estimate_announcement_date", fiscal_year |-> y,
                    fiscal_quarter |-> q]
        /\ ret' = [kind |-> "date", val |-> estimate_announcement_date(y, q)]
        /\ UNCHANGED <<financials, cached_delisted, actions, bt>>

ValidateNoLookahead ==
    \E t \in TradeDates, d \in DataDates, a \in AnnouncedDates :
        /\ call' = [op |-> "validate_no_lookahead", trade_date |-> t,
                    data_date |-> d, announced_date |-> a]
        /\ ret' = [kind |-> "bool", val |-> validate_no_lookahead(t, d, a)]
        /\ UNCHANGED <<financials, cached_delisted, actions, bt>>

NextPIT == GetAvailableFinancials

SpecPIT == InitPIT /\ [][NextPIT]_vars

\* the queries of the module over tables of quarterly records
InitPITQueries ==
    /\ financials \in {NoneValue} \cup QuarterlyTables \cup NoQuarterTables
    /\ cached_delisted = NoneValue
    /\ actions = <<>>
    /\ bt = NoneValue
    /\ call = NoCall
    /\ ret = NoneValue

NextPITQueries ==
    \/ GetAvailableFinancials
    \/ GetLatestAvailable
    \/ GetTtmAvailable
    \/ EstimateAnnouncementDate
    \/ ValidateNoLookahead

SpecPITQueries == InitPITQueries /\ [][NextPITQueries]_vars

----------------------------------------------------------------------------
(* Claims about PointInTimeManager                                          *)

\* the announcement date of an input row as the data model defines it: the
\* explicit announced_at when the row has one, the estimate otherwise
AnnouncementDateOf(fin, r) ==
    IF "announced_at" \in fin.columns /\ ~isna(r.announced_at)
    THEN r.announced_at
    ELSE estimate_announcement_date(r.fiscal_year, r.fiscal_quarter)

IndexLabels(rows) == {rows[i].index : i \in 1..Len(rows)}

AvailableCalled == call.op = "get_available_financials"

\* C1: get_available_financials(entity, D) returns exactly the records of the
\* entity whose announcement date (explicit when the record has one, estimated
\* otherwise, record by record) is <= D.
C1_ExactlyAnnouncedRecords ==
    (AvailableCalled /\ ~IsNoneValue(financials)) =>
        IndexLabels(ret.rows) =
            {r.index : r \in {x \in Range(financials.rows) :
                /\ x.stock_code = call.stock_code
                /\ AnnouncementDateOf(financials, x) <= call.as_of_date}}

\* C2: monotonicity.  The records returned for the as-of date of the last call
\* are all returned for every later as-of date, and contain all the records
\* returned for every earlier one, over the same financial table.
C2_Monotonic ==
    AvailableCalled =>
        \A d \in AsOfDates :
            LET other == get_available_financials(financials, call.stock_code, d).rows
            IN  /\ (call.as_of_date <= d => Range(ret.rows) \subseteq Range(other))
                /\ (d <= call.as_of_date => Range(other) \subseteq Range(ret.rows))

\* C2 witness: a call that returned some record, and a later date at which
\* strictly more records of the same entity are returned
C2_Witness ==
    /\ AvailableCalled
    /\ ret.rows # <<>>
    /\ \E d \in AsOfDates :
          /\ call.as_of_date < d
          /\ Len(get_available_financials(financials, call.stock_code, d).rows)
                > Len(ret.rows)

\* the calendar year a date falls in
CalendarYearOf(d) ==
    CHOOSE y \in 2020..2030 : Date(y, 1, 1) <= d /\ d <= Date(y, 12, 31)

\* C17: validate_no_lookahead(trade_date, data_period_end, announcement_date)
\* returns false exactly when trade_date < announcement_date and true
\* otherwise, and never raises; without an announcement date, April 1 of the
\* year after data_period_end's year takes its place, so trade_date
\* 2024-01-15 with data_period_end 2023-12-31 returns false.
C17_FalseIffTradeBeforeAnnouncement ==
    call.op = "validate_no_lookahead" =>
        LET announced == IF call.announced_date = PyNone
                         THEN Date(CalendarYearOf(call.data_date) + 1, 4, 1)
                         ELSE call.announced_date
        IN  /\ ret.kind = "bool"
            /\ ret.val = ~(call.trade_date < announced)
            /\ (/\ call.trade_date = Date(2024, 1, 15)
                /\ call.data_date = Date(2023, 12, 31)
                /\ call.announced_date = PyNone) => ret.val = FALSE

\* C17 witness: the call of the scenario has returned false
C17_Witness ==
    /\ call.op = "validate_no_lookahead"
    /\ call.trade_date = Date(2024, 1, 15)
    /\ call.data_date = Date(2023, 12, 31)
    /\ call.announced_date = PyNone
    /\ ret.val = FALSE

\* C18: estimate_announcement_date(y, 'FY') is the date 90 days after
\* December 31 of y, which is March 31 of y+1, and for 1Q, 2Q, 3Q it is the
\* date 45 days after the quarter's end (March 31, June 30, September 30 of y).
C18_EstimateIsPeriodEndPlusDelay ==
    call.op = "estimate_announcement_date" =>
        LET y == call.fiscal_year
            q == call.fiscal_quarter
        IN  /\ q = "FY" => (/\ ret.val = Date(y, 12, 31) + 90
                            /\ ret.val = Date(y + 1, 3, 31))
            /\ q = "1Q" => ret.val = Date(y, 3, 31) + 45
            /\ q = "2Q" => ret.val = Date(y, 6, 30) + 45
            /\ q = "3Q" => ret.val = Date(y, 9, 30) + 45

QuarterTags == {"1Q", "2Q", "3Q", "4Q"}

\* the quarterly records of the entity that are available as of d
AvailableQuarters(fin, stock_code, d) ==
    LET available == get_available_financials(fin, stock_code, d)
    IN  {r \in Range(available.rows) :
            "fiscal_quarter" \in available.columns /\ r.fiscal_quarter \in QuarterTags}

RECURSIVE SetSum(_, _)
SetSum(S, col) ==
    IF S = {} THEN 0
    ELSE LET r == CHOOSE x \in S : TRUE IN r[col] + SetSum(S \ {r}, col)

TtmKey(col) ==
    IF col = "revenue" THEN "revenue_ttm"
    ELSE IF col = "operating_income" THEN "operating_income_ttm"
    ELSE "net_income_ttm"

IsEmptyDict(x) == "kind" \in DOMAIN x /\ x.kind = "dict" /\ x.keys = {}

\* C19: get_ttm_available(entity, D) returns the empty mapping whenever fewer
\* than four quarterly records (1Q..4Q) of the entity are available as of D;
\* with at least four, every returned amount is the sum over exactly the four
\* available quarterly records with the latest announcement dates (annual
\* records and records not yet announced never enter it).
C19_TtmOverLatestFourQuarters ==
    call.op = "get_ttm_available" =>
        LET Q == AvailableQuarters(financials, call.stock_code, call.as_of_date)
        IN  IF Cardinality(Q) < 4 THEN IsEmptyDict(ret)
            ELSE /\ ret.kind = "dict"
                 /\ ret.keys # {}
                 /\ \E S \in SUBSET Q :
                       /\ Cardinality(S) = 4
                       /\ \A x \in S, t \in Q \ S : t.announced_at <= x.announced_at
                       /\ \A x \in S : x.announced_at <= call.as_of_date
                       /\ \A col \in AmountColumns \cap financials.columns :
                             ret[TtmKey(col)] =
                                 [kind |-> "number", val |-> SetSum(S, col)]

\* the financial table holds no record of the entity, or there is no table
UnknownEntity(fin, stock_code) ==
    IsNoneValue(fin) \/ \A r \in Range(fin.rows) : r.stock_code # stock_code

\* C20: for an entity without a record in the financial table, or without a
\* table, get_available_financials returns an empty table,
\* get_latest_available none and get_ttm_available the empty mapping, and
\* none of them raises, whatever columns the table has.
C20_UnknownEntityEmpty ==
    (/\ call.op \in {"get_available_financials", "get_latest_available",
                     "get_ttm_available"}
     /\ UnknownEntity(financials, call.stock_code)) =>
        /\ call.op = "get_available_financials" =>
              ("rows" \in DOMAIN ret /\ ret.rows = <<>>)
        /\ call.op = "get_latest_available" => IsNoneValue(ret)
        /\ call.op = "get_ttm_available" => IsEmptyDict(ret)

\* the last day of the fiscal period of a record
PeriodEnd(fiscal_year, fiscal_quarter) ==
    IF fiscal_quarter = "1Q" THEN Date(fiscal_year, 3, 31)
    ELSE IF fiscal_quarter = "2Q" THEN Date(fiscal_year, 6, 30)
    ELSE IF fiscal_quarter = "3Q" THEN Date(fiscal_year, 9, 30)
    ELSE Date(fiscal_year, 12, 31)

AnnouncedBeforePeriodEnd(fin, r) ==
    /\ "announced_at" \in fin.columns
    /\ ~isna(r.announced_at)
    /\ r.announced_at < PeriodEnd(r.fiscal_year, r.fiscal_quarter)

\* C23: a financial record announced earlier than the end of its fiscal
\* period is rejected when the view is constructed from the table: every
\* record of the stored table has announcement date >= fiscal-period end
\* date, so no query is answered from a table holding such a record and no
\* query returns one.
C23_AnnouncedBeforePeriodEndRejected ==
    (AvailableCalled /\ ~IsNoneValue(financials)) =>
        /\ \A r \in Range(financials.rows) : ~AnnouncedBeforePeriodEnd(financials, r)
        /\ \A r \in Range(ret.rows) :
              "announced_at" \in ret.columns =>
                  r.announced_at >= PeriodEnd(r.fiscal_year, r.fiscal_quarter)

\* C28: whenever get_available_financials, working from estimated
\* announcement dates, returns the annual (FY) record of fiscal year y at
\* date D, validate_no_lookahead(D, December 31 of y) without an announcement
\* date is true.
C28_GuardsAgree ==
    (/\ AvailableCalled
     /\ ~IsNoneValue(financials)
     /\ "announced_at" \notin financials.columns) =>
        \A r \in Range(ret.rows) :
            ("fiscal_quarter" \notin financials.columns \/ r.fiscal_quarter = "FY") =>
                validate_no_lookahead(call.as_of_date,
                                      Date(r.fiscal_year, 12, 31), PyNone)

----------------------------------------------------------------------------
(* DelistedStockCollector                                                   *)

\* the entity ids the tracker is asked about
ListingCodes == {"001500", "036570", "019680"}

\* listed_at / delisted_at pairs of candidate records; NaT: no delisting date
ListingIntervals ==
    {<<Date(1999, 9, 1), Date(2012, 4, 30)>>,
     <<Date(2012, 6, 1), NaT>>,
     <<Date(2012, 6, 1), Date(2023, 12, 28)>>}

CheckDates ==
    {Date(2000, 1, 1), Date(2011, 1, 1), Date(2012, 4, 30), Date(2013, 1, 1),
     Date(2023, 12, 28)}

\* lines 37-44: the rows collect_from_krx builds its frame from, under the
\* row labels pandas gives them.  The name and reason texts are Korean in
\* the source and stand here in English; the date strings stand as the dates
\* they spell.
delisted_samples ==
    <<[index |-> 0, code |-> "001500", name |-> "Hyundai Savings Bank",
       market |-> "KOSDAQ", listed_at |-> Date(1999, 9, 1),
       delisted_at |-> Date(2012, 4, 30), reason |-> "bankruptcy"],
      [index |-> 1, code |-> "036570", name |-> "NCsoft",
       market |-> "KOSDAQ", listed_at |-> Date(2000, 11, 1),
       delisted_at |-> PyNone, reason |-> NoneValue],
      [index |-> 2, code |-> "019680", name |-> "Daekyo",
       market |-> "KOSPI", listed_at |-> Date(1987, 6, 20),
       delisted_at |-> Date(2023, 12, 28), reason |-> "voluntary delisting"]>>

KrxColumns == {"code", "name", "market", "listed_at", "delisted_at", "reason"}

\* the columns of a candidate table that carries both dates
ListingColumns == {"code", "listed_at", "delisted_at"}

\* the frame of delisted_samples with both date columns converted, cut to
\* the rows that carry a delisting date
collect_from_krx ==
    LET df == [i \in 1..Len(delisted_samples) |->
                  [delisted_samples[i] EXCEPT !.listed_at = to_date(@),
                                              !.delisted_at = to_date(@)]]
    IN  Frame(KrxColumns, SelectSeq(df, LAMBDA r : ~isna(r.delisted_at)))

\* self.cached_delisted after the lazy load of lines 60-61 and 69-70
loaded(cache) ==
    IF IsNoneValue(cache) THEN collect_from_krx ELSE cache

get_delisted_at_date(cache, as_of_date) ==
    Frame(cache.columns,
          SelectSeq(cache.rows,
              LAMBDA r : ~isna(r.delisted_at) /\ r.delisted_at <= as_of_date))

\* lines 78-84 on one row.  The cached column went through .dt.date, so an
\* empty delisting cell would be NaT, never None, and collect_from_krx keeps
\* no such row: the branch of line 81 is not taken from a loaded cache.
listed_in(listed, delisted, check_date) ==
    IF delisted = PyNone THEN check_date >= listed
    ELSE listed <= check_date /\ check_date < delisted

was_listed_at(cache, stock_code, check_date) ==
    LET stock == SelectSeq(cache.rows, LAMBDA r : r.code = stock_code)
    IN  IF stock = <<>> THEN TRUE
        ELSE listed_in(stock[1].listed_at, stock[1].delisted_at, check_date)

\* line 105: (result['delisted_at'].isna()) | (result['delisted_at'] > as_of_date)
not_delisted_by(delisted_at, as_of_date) ==
    isna(delisted_at) \/ delisted_at > as_of_date

\* line 110: result['listed_at'] <= as_of_date
listed_by(listed_at, as_of_date) ==
    ~isna(listed_at) /\ listed_at <= as_of_date

get_universe_at(as_of_date, all_stocks) ==
    IF IsNoneValue(all_stocks) THEN all_stocks
    ELSE IF all_stocks.rows = <<>> THEN all_stocks
    ELSE LET kept ==
                IF "delisted_at" \in all_stocks.columns
                THEN SelectSeq(all_stocks.rows,
                        LAMBDA r : not_delisted_by(r.delisted_at, as_of_date))
                ELSE all_stocks.rows
         IN  Frame(all_stocks.columns,
                   IF "listed_at" \in all_stocks.columns
                   THEN SelectSeq(kept, LAMBDA r : listed_by(r.listed_at, as_of_date))
                   ELSE kept)

\* candidate tables (all_stocks): one row per entity, with any of the two
\* date columns
CandidateCodeLists ==
    {<<>>, <<"001500">>, <<"036570">>, <<"001500", "036570">>}

CandidateColumnSets ==
    {{"code"}, {"code", "listed_at"}, {"code", "delisted_at"},
     {"code", "listed_at", "delisted_at"}}

CandidateRow(cols, i, c, iv) ==
    IF "listed_at" \in cols /\ "delisted_at" \in cols
    THEN [index |-> i, code |-> c, listed_at |-> iv[1], delisted_at |-> iv[2]]
    ELSE IF "listed_at" \in cols
    THEN [index |-> i, code |-> c, listed_at |-> iv[1]]
    ELSE IF "delisted_at" \in cols
    THEN [index |-> i, code |-> c, delisted_at |-> iv[2]]
    ELSE [index |-> i, code |-> c]

\* the intervals a candidate record may carry: the listing intervals and one
\* whose delisting date is earlier than its listing date
CandidateIntervals == ListingIntervals \cup {<<Date(2012, 6, 1), Date(2012, 4, 30)>>}

CandidateTables ==
    {NoneValue}
    \cup {Frame(cols, [i \in 1..Len(codes) |-> CandidateRow(cols, i, codes[i], ivs[i])])
            : cols \in CandidateColumnSets,
              codes \in CandidateCodeLists,
              ivs \in [1..2 -> CandidateIntervals]}

InitListing ==
    /\ financials = NoneValue
    /\ cached_delisted = NoneValue
    /\ actions = <<>>
    /\ bt = NoneValue
    /\ call = NoCall
    /\ ret = NoneValue

GetDelistedAtDate ==
    \E d \in CheckDates :
        /\ cached_delisted' = loaded(cached_delisted)
        /\ call' = [op |-> "get_delisted_at_date", as_of_date |-> d]
        /\ ret' = get_delisted_at_date(cached_delisted', d)
        /\ UNCHANGED <<financials, actions, bt>>

WasListedAt ==
    \E c \in ListingCodes, d \in CheckDates :
        /\ cached_delisted' = loaded(cached_delisted)
        /\ call' = [op |-> "was_listed_at", stock_code |-> c, check_date |-> d]
        /\ ret' = [kind |-> "bool", val |-> was_listed_at(cached_delisted', c, d)]
        /\ UNCHANGED <<financials, actions, bt>>

GetUniverseAt ==
    \E d \in CheckDates, t \in CandidateTables :
        /\ call' = [op |-> "get_universe_at", as_of_date |-> d, all_stocks |-> t,
                    all_stocks_after |-> caller_frame(t, t)]
        /\ ret' = get_universe_at(d, t)
        /\ UNCHANGED <<financials, cached_delisted, actions, bt>>

NextListing == GetDelistedAtDate \/ WasListedAt \/ GetUniverseAt

SpecListing == InitListing /\ [][NextListing]_vars

----------------------------------------------------------------------------
(* Claims about DelistedStockCollector                                      *)

\* the interval records of an entity among the records the tracker is built
\* from (delisted_samples: an entity still listed has no delisting date)
IntervalsOf(records, stock_code) ==
    {r \in Range(records) : r.code = stock_code}

\* some recorded interval of the entity covers the date
SomeIntervalCovers(records, stock_code, d) ==
    \E r \in IntervalsOf(records, stock_code) :
        r.listed_at <= d /\ (isna(r.delisted_at) \/ d < r.delisted_at)

\* what the listing contract says was_listed_at answers
ListedPerContract(records, stock_code, d) ==
    IntervalsOf(records, stock_code) = {} \/ SomeIntervalCovers(records, stock_code, d)

C4_UniverseAgreesWithWasListedAt ==
    (call.op = "get_universe_at" /\ ~IsNoneValue(call.all_stocks)) =>
        IndexLabels(ret.rows) =
            {r.index : r \in {x \in Range(call.all_stocks.rows) :
                /\ was_listed_at(loaded(cached_delisted), x.code,
                                 call.as_of_date)
                /\ ("listed_at" \in call.all_stocks.columns
                        => x.listed_at <= call.as_of_date)}}

\* the candidate is delisted before d: by the delisted_at its own record
\* carries, or by the record the tracker holds of the entity
DelistedBefore(all_stocks, r, d) ==
    \/ "delisted_at" \in all_stocks.columns /\ ~isna(r.delisted_at) /\ r.delisted_at < d
    \/ \E x \in Range(collect_from_krx.rows) : x.code = r.code /\ x.delisted_at < d

\* C5: universe correctness.  For every date d and every candidate table the
\* result of get_universe_at(d, candidates) never contains an entity whose
\* delisting date is earlier than d.
C5_NoDelistedInUniverse ==
    (call.op = "get_universe_at" /\ ~IsNoneValue(call.all_stocks)) =>
        \A r \in Range(ret.rows) :
            ~DelistedBefore(call.all_stocks, r, call.as_of_date)

IsRaised(x) == "kind" \in DOMAIN x /\ x.kind = "raise"

\* the delisting date of the record is earlier than its listing date
Inverted(r) ==
    ~isna(r.listed_at) /\ ~isna(r.delisted_at) /\ r.delisted_at < r.listed_at

\* C21: a listing interval whose delisted date is earlier than its listed
\* date is rejected with an error: the tracker never stores one, and
\* get_universe_at over candidate records that hold one ends in the error
\* instead of an answer.
C21_InvertedIntervalRejected ==
    /\ ~IsNoneValue(cached_delisted) =>
          \A r \in Range(cached_delisted.rows) : ~Inverted(r)
    /\ (/\ call.op = "get_universe_at"
        /\ ~IsNoneValue(call.all_stocks)
        /\ ListingColumns \subseteq call.all_stocks.columns
        /\ \E r \in Range(call.all_stocks.rows) : Inverted(r)) => IsRaised(ret)

----------------------------------------------------------------------------
(* Floats as exact rationals [n, d]: d > 0 and lowest terms for a finite    *)
(* value; d = 0 for inf (n = 1), -inf (n = -1) and nan (n = 0)              *)

Abs(x) == IF x < 0 THEN -x ELSE x

Sign(x) == IF x < 0 THEN -1 ELSE IF x > 0 THEN 1 ELSE 0

RECURSIVE GCD(_, _)
GCD(a, b) == IF b = 0 THEN a ELSE GCD(b, a % b)

Rat(n, d) ==
    IF d = 0 THEN [n |-> Sign(n), d |-> 0]
    ELSE LET g == GCD(Abs(n), Abs(d))
         IN  [n |-> Sign(d) * (n \div g), d |-> Abs(d) \div g]

FromInt(x) == [n |-> x, d |-> 1]

One == FromInt(1)

\* a * b, reduced crosswise before multiplying
RMul(a, b) ==
    IF a.d = 0 \/ b.d = 0 THEN [n |-> a.n * b.n, d |-> 0]
    ELSE LET g1 == GCD(Abs(a.n), b.d)
             g2 == GCD(Abs(b.n), a.d)
         IN  IF a.n = 0 \/ b.n = 0 THEN FromInt(0)
             ELSE [n |-> (a.n \div g1) * (b.n \div g2),
                   d |-> (a.d \div g2) * (b.d \div g1)]

\* a / b in float arithmetic: x / 0 is inf or nan, never an error
RDiv(a, b) ==
    IF b.n = 0 THEN [n |-> Sign(a.n), d |-> 0]
    ELSE RMul(a, [n |-> Sign(b.n) * b.d, d |-> Abs(b.n)])

RAdd(a, b) == Rat(a.n * b.d + b.n * a.d, a.d * b.d)

RSub(a, b) == Rat(a.n * b.d - b.n * a.d, a.d * b.d)

RLess(a, b) == a.n * b.d < b.n * a.d

----------------------------------------------------------------------------
(* AdjustedPriceCalculator                                                  *)

MaxActions == 2

ActionDates == {Date(2018, 5, 4), Date(2018, 5, 8)}

\* CorporateAction(action_date, action_type, ratio, dividend_amount); the
\* dataclass accepts any action_type
CorporateAction(action_date, action_type, ratio, dividend_amount) ==
    [action_date |-> action_date, action_type |-> action_type,
     ratio |-> ratio, dividend_amount |-> dividend_amount]

CorporateActions ==
    {CorporateAction(d, k[1], k[2], k[3]) :
        d \in ActionDates,
        k \in {<<"split", Rat(1, 50), 0>>, <<"rights", Rat(1, 2), 0>>,
               <<"dividend", One, 0>>, <<"dividend", One, 1000>>,
               <<"dividend", One, 50000>>}}
    \cup {CorporateAction(Date(2018, 5, 8), "merger", Rat(1, 2), 0)}

\* raw bars of the model's price tables: <<open, high, low, close, volume>>,
\* one before the 50-for-1 split and one after it
PreSplitBar == <<2490000, 2520000, 2480000, 2500000, 1000>>

PostSplitBar == <<50500, 51000, 49500, 50000, 1200>>

HaltedBar == <<0, 0, 0, 0, 0>>

BarDate1 == Date(2018, 5, 3)

BarDate2 == Date(2018, 5, 4)

BarDate3 == Date(2018, 5, 8)

\* the bars a price table may hold on each date
BarChoices ==
    {<<BarDate1, PreSplitBar>>,
     <<BarDate2, PostSplitBar>>, <<BarDate2, HaltedBar>>,
     <<BarDate3, PostSplitBar>>, <<BarDate3, HaltedBar>>}

OHLCV == {"date", "open", "high", "low", "close", "volume"}

PriceColumnSets == {OHLCV, {"date", "close", "volume"}}

PriceRow(cols, i, b) ==
    IF "open" \in cols
    THEN [index |-> i, date |-> b[1], open |-> b[2][1], high |-> b[2][2],
          low |-> b[2][3], close |-> b[2][4], volume |-> b[2][5]]
    ELSE [index |-> i, date |-> b[1], close |-> b[2][4], volume |-> b[2][5]]

\* price tables: ascending dates, at most one bar a date
PriceTables ==
    {Frame(cols, [i \in 1..Len(bars) |-> PriceRow(cols, i, bars[i])]) :
        cols \in PriceColumnSets,
        bars \in {b \in SeqsUpTo(BarChoices, 3) :
                    \A i \in 1..(Len(b) - 1) : b[i][1] < b[i + 1][1]}}

\* list.sort(key=action_date): a stable sort
RECURSIVE sort_by_action_date(_)
sort_by_action_date(s) ==
    IF s = <<>> THEN <<>>
    ELSE LET x == s[Len(s)]
             front == sort_by_action_date(SubSeq(s, 1, Len(s) - 1))
             notlater == SelectSeq(front, LAMBDA a : a.action_date <= x.action_date)
             later == SelectSeq(front, LAMBDA a : a.action_date > x.action_date)
         IN  notlater \o <<x>> \o later

\* a mutant of add_action: appended, not sorted
add_action_unsorted(ledger, action) == Append(ledger, action)

add_action(ledger, action) == sort_by_action_date(Append(ledger, action))

\* lines 50-55: the CorporateAction built from one row of the table
action_of_row(df, row) ==
    CorporateAction(row.action_date, row.action_type,
                    IF "ratio" \in df.columns THEN row.ratio ELSE One,
                    IF "dividend_amount" \in df.columns THEN row.dividend_amount ELSE 0)

\* for _, row in df.iterrows(): self.add_action(...), from row k on
RECURSIVE add_rows_from(_, _, _)
add_rows_from(ledger, df, k) ==
    IF k > Len(df.rows) THEN ledger
    ELSE add_rows_from(add_action(ledger, action_of_row(df, df.rows[k])), df, k + 1)

add_actions_from_df(ledger, df) == add_rows_from(ledger, df, 1)

ActionColumns == {"action_date", "action_type", "ratio", "dividend_amount"}

\* the rows of the action tables: a split and a later dividend
ActionRows ==
    {[index |-> 0, action_date |-> Date(2018, 5, 4), action_type |-> "split",
      ratio |-> Rat(1, 50), dividend_amount |-> 0],
     [index |-> 0, action_date |-> Date(2018, 5, 8), action_type |-> "dividend",
      ratio |-> One, dividend_amount |-> 1000]}

\* action tables of up to two rows in any order, and one without the ratio
\* and dividend_amount columns
ActionTables ==
    {Frame(ActionColumns, Labelled(rows)) : rows \in SeqsUpTo(ActionRows, 2) \ {<<>>}}
    \cup {Frame({"action_date", "action_type"},
                <<[index |-> 1, action_date |-> Date(2018, 5, 4),
                   action_type |-> "dividend"]>>)}

\* a mutant of before_action: the bar of the action date is rescaled too
before_action_inclusive(bar_date, action_date) == bar_date <= action_date

\* line 74: mask = result[date_col] < action.action_date
before_action(bar_date, action_date) == bar_date < action_date

\* a mutant of dividend_factor: the dividend added instead of subtracted
dividend_factor_added(ref_price, dividend_amount) ==
    Rat(ref_price + dividend_amount, ref_price)

\* line 89: (ref_price - action.dividend_amount) / ref_price
dividend_factor(ref_price, dividend_amount) ==
    Rat(ref_price - dividend_amount, ref_price)

\* lines 85-87: the rows dated on the action date; the close of the first one
ex_date_rows(rows, action_date) == SelectSeq(rows, LAMBDA r : r.date = action_date)

\* the factor by which one action multiplies the masked rows (1: it does not
\* touch them)
action_multiplier(action, rows) ==
    IF action.action_type = "split" THEN action.ratio
    ELSE IF action.action_type = "dividend"
    THEN IF action.dividend_amount > 0
            /\ ex_date_rows(rows, action.action_date) # <<>>
            /\ ex_date_rows(rows, action.action_date)[1].close > 0
         THEN dividend_factor(ex_date_rows(rows, action.action_date)[1].close,
                              action.dividend_amount)
         ELSE One
    ELSE IF action.action_type = "rights" THEN action.ratio
    ELSE One

\* one turn of the loop of line 73 on the adj_factor column
apply_action(action, rows, factors) ==
    [i \in 1..Len(rows) |->
        IF before_action(rows[i].date, action.action_date)
        THEN RMul(factors[i], action_multiplier(action, rows))
        ELSE factors[i]]

\* for action in reversed(self.actions): the actions k, k-1, ..., 1 in turn
RECURSIVE apply_actions_reversed(_, _, _, _)
apply_actions_reversed(ledger, k, rows, factors) ==
    IF k = 0 THEN factors
    ELSE apply_actions_reversed(ledger, k - 1, rows,
                                apply_action(ledger[k], rows, factors))

\* a mutant of initial_factor: a factor the frame already carries is kept
initial_factor_kept(row) ==
    IF "adj_factor" \in DOMAIN row THEN row.adj_factor ELSE One

\* line 72: result['adj_factor'] = 1.0, whatever the frame carried before
initial_factor(row) == One

\* the columns the call writes replace columns of the same name
calculate_adjustment_factors(ledger, prices) ==
    LET factors == apply_actions_reversed(ledger, Len(ledger), prices.rows,
                       [i \in 1..Len(prices.rows) |-> initial_factor(prices.rows[i])])
    IN  Frame(prices.columns \cup {"adj_factor", "adj_close"},
              [i \in 1..Len(prices.rows) |->
                  [adj_factor |-> factors[i],
                   adj_close |-> RMul(FromInt(prices.rows[i].close), factors[i])]
                  @@ prices.rows[i]])

\* a mutant of adjusted_volume: the volume scaled like a price
adjusted_volume_scaled(volume, factor) == RMul(FromInt(volume), factor)

\* line 120: result['volume'] / result['adj_factor']
adjusted_volume(volume, factor) == RDiv(FromInt(volume), factor)

adjust_prices(ledger, prices) ==
    LET result == calculate_adjustment_factors(ledger, prices)
        ohl == IF "open" \in result.columns
               THEN {"adj_open", "adj_high", "adj_low"} ELSE {}
    IN  Frame(result.columns \cup ohl \cup {"adj_volume"},
              [i \in 1..Len(result.rows) |->
                  LET r == result.rows[i]
                  IN  [adj_volume |-> adjusted_volume(r.volume, r.adj_factor)]
                      @@ (IF "open" \in result.columns
                          THEN [adj_open |-> RMul(FromInt(r.open), r.adj_factor),
                                adj_high |-> RMul(FromInt(r.high), r.adj_factor),
                                adj_low |-> RMul(FromInt(r.low), r.adj_factor)] @@ r
                          ELSE r)])

InitAdj ==
    /\ financials = NoneValue
    /\ cached_delisted = NoneValue
    /\ actions = <<>>
    /\ bt = NoneValue
    /\ call = NoCall
    /\ ret = NoneValue

AddAction ==
    \E a \in CorporateActions :
        /\ Len(actions) < MaxActions
        /\ actions' = add_action(actions, a)
        /\ call' = [op |-> "add_action", action |-> a, ledger |-> actions]
        /\ ret' = NoneValue
        /\ UNCHANGED <<financials, cached_delisted, bt>>

AddActionsFromDf ==
    \E t \in ActionTables :
        /\ Len(actions) + Len(t.rows) <= MaxActions
        /\ actions' = add_actions_from_df(actions, t)
        /\ call' = [op |-> "add_actions_from_df", df |-> t, ledger |-> actions]
        /\ ret' = NoneValue
        /\ UNCHANGED <<financials, cached_delisted, bt>>

\* a mutant of iterated_reversed: the ledger consumed by the iteration
iterated_by_popping(ledger) == <<>>

\* line 73: reversed(self.actions) is an iterator over the list; self.actions
\* after the loop is the list as it was
iterated_reversed(ledger) == ledger

\* "ledger" is self.actions when the call was made; "prices" is the caller's
\* frame as it was passed and "prices_after" the same frame when the call has
\* returned
CalculateAdjustmentFactors ==
    \E p \in PriceTables :
        /\ call' = [op |-> "calculate_adjustment_factors", prices |-> p,
                    ledger |-> actions,
                    prices_after |->
                        caller_frame(p, calculate_adjustment_factors(actions, p))]
        /\ ret' = calculate_adjustment_factors(actions, p)
        /\ actions' = iterated_reversed(actions)
        /\ UNCHANGED <<financials, cached_delisted, bt>>

AdjustPrices ==
    \E p \in PriceTables :
        /\ call' = [op |-> "adjust_prices", prices |-> p, ledger |-> actions,
                    prices_after |-> caller_frame(p, adjust_prices(actions, p))]
        /\ ret' = adjust_prices(actions, p)
        /\ actions' = iterated_reversed(actions)
        /\ UNCHANGED <<financials, cached_delisted, bt>>

NextAdj ==
    AddAction \/ AddActionsFromDf \/ CalculateAdjustmentFactors \/ AdjustPrices

SpecAdj == InitAdj /\ [][NextAdj]_vars

\* the caller runs adjust_prices again (and with it
\* calculate_adjustment_factors, its first step), on the frame it passed to
\* the run before or on the frame that run returned
AdjustPricesAgain ==
    /\ call.op = "adjust_prices"
    /\ \E p \in {call.prices_after, ret} :
          /\ call' = [op |-> "adjust_prices", prices |-> p, ledger |-> actions,
                      prices_after |-> caller_frame(p, adjust_prices(actions, p))]
          /\ ret' = adjust_prices(actions, p)
    /\ actions' = iterated_reversed(actions)
    /\ UNCHANGED <<financials, cached_delisted, bt>>

NextAdjAgain == AddAction \/ AdjustPrices \/ AdjustPricesAgain

\* a calculator whose caller runs the adjustment more than once
SpecAdjAgain == InitAdj /\ [][NextAdjAgain]_vars

\* sample_actions of collect_corporate_actions
collect_corporate_actions(stock_code) ==
    IF stock_code = "005930"
    THEN Frame(ActionColumns,
               <<[index |-> 0, action_date |-> Date(2018, 5, 4), action_type |-> "split",
                  ratio |-> Rat(1, 50), dividend_amount |-> 0]>>)
    ELSE IF stock_code = "035720"
    THEN Frame(ActionColumns,
               <<[index |-> 0, action_date |-> Date(2021, 4, 15), action_type |-> "split",
                  ratio |-> Rat(1, 5), dividend_amount |-> 0]>>)
    ELSE EmptyFrame

\* the main function: a calculator of its own, loaded from the table passed
\* or, when that is None or empty, from collect_corporate_actions
get_adjusted_prices(stock_code, raw_prices, corporate_actions) ==
    IF IsNoneValue(raw_prices) THEN raw_prices
    ELSE IF raw_prices.rows = <<>> THEN raw_prices
    ELSE LET loaded_actions ==
                 IF IsNoneValue(corporate_actions)
                 THEN collect_corporate_actions(stock_code)
                 ELSE IF corporate_actions.rows = <<>>
                 THEN collect_corporate_actions(stock_code)
                 ELSE corporate_actions
             calculator_actions ==
                 IF loaded_actions.rows # <<>>
                 THEN add_actions_from_df(<<>>, loaded_actions)
                 ELSE <<>>
         IN  adjust_prices(calculator_actions, raw_prices)

\* the entity ids get_adjusted_prices is called for
AdjustedCodes == {"005930", "035720", "000660"}

\* the corporate_actions argument: absent, empty, or a table
ActionArguments == {NoneValue, EmptyFrame} \cup ActionTables

GetAdjustedPrices ==
    \E c \in AdjustedCodes, p \in {NoneValue} \cup PriceTables, t \in ActionArguments :
        /\ call' = [op |-> "get_adjusted_prices", stock_code |-> c, prices |-> p,
                    corporate_actions |-> t]
        /\ ret' = get_adjusted_prices(c, p, t)
        /\ UNCHANGED <<financials, cached_delisted, actions, bt>>

NextAdjusted == GetAdjustedPrices

\* get_adjusted_prices alone: it shares no state with a calculator
SpecAdjusted == InitAdj /\ [][NextAdjusted]_vars

----------------------------------------------------------------------------
(* Claims about AdjustedPriceCalculator                                     *)

FactorsCalled == call.op \in {"calculate_adjustment_factors", "adjust_prices"}

\* the raw close of the bar dated exactly d, as a set (empty: no such bar)
RawCloseOn(rows, d) == {r.close : r \in {x \in Range(rows) : x.date = d}}

\* the multiplier the adjustment contract gives an action: the ratio for a
\* split and for a rights issue; for a dividend of amount a, (p - a) / p with p
\* the raw close on the action date, and 1 when there is no such bar or p = 0
ContractMultiplier(action, rows) ==
    IF action.action_type \in {"split", "rights"} THEN action.ratio
    ELSE IF RawCloseOn(rows, action.action_date) = {} THEN One
    ELSE LET p == CHOOSE c \in RawCloseOn(rows, action.action_date) : TRUE
         IN  IF p = 0 THEN One ELSE Rat(p - action.dividend_amount, p)

\* the product of the multipliers of the actions k..Len dated strictly after t
RECURSIVE LaterProduct(_, _, _, _)
LaterProduct(ledger, k, rows, t) ==
    IF k > Len(ledger) THEN One
    ELSE RMul(IF ledger[k].action_date > t
              THEN ContractMultiplier(ledger[k], rows) ELSE One,
              LaterProduct(ledger, k + 1, rows, t))

LaterActions(ledger, t) == {k \in 1..Len(ledger) : ledger[k].action_date > t}

\* C7: adjustment anchor.  The bar with the latest date in the output of
\* calculate_adjustment_factors / adjust_prices carries factor exactly 1.
C7_LatestBarFactorOne ==
    FactorsCalled =>
        \A r \in Range(ret.rows) :
            (\A q \in Range(ret.rows) : q.date <= r.date) => r.adj_factor = One

\* C8: the factor of a bar dated t is the product of the multipliers of the
\* ledger actions dated strictly after t; an action dated on or before t does
\* not enter it.
C8_FactorIsProductOfLaterActions ==
    FactorsCalled =>
        \A r \in Range(ret.rows) :
            r.adj_factor = LaterProduct(actions, 1, call.prices.rows, r.date)

\* C8 witness: a two-action ledger, a bar with both actions after it and a
\* rescaled factor, and a bar that an action on or before its date leaves alone
C8_Witness ==
    /\ FactorsCalled
    /\ Len(actions) = 2
    /\ \E r \in Range(ret.rows) :
          LaterActions(actions, r.date) = {1, 2} /\ r.adj_factor # One
    /\ \E r \in Range(ret.rows) :
          LaterActions(actions, r.date) # {1, 2} /\ r.adj_factor = One

\* the ledger without its k-th action
WithoutAction(ledger, k) ==
    SubSeq(ledger, 1, k - 1) \o SubSeq(ledger, k + 1, Len(ledger))

\* C9: a dividend action of amount a multiplies the factor of every earlier
\* bar by (p - a) / p, p the raw close on the action date, whatever other
\* actions the ledger holds and wherever it stands among them; without a bar
\* on the action date, or with p = 0, it changes no factor.
C9_DividendUsesRawClose ==
    FactorsCalled =>
        \A k \in 1..Len(actions) :
            actions[k].action_type = "dividend" =>
                LET rest == calculate_adjustment_factors(
                                WithoutAction(actions, k), call.prices).rows
                    p == RawCloseOn(call.prices.rows, actions[k].action_date)
                    term == IF p = {} \/ p = {0} THEN One
                            ELSE LET c == CHOOSE x \in p : TRUE
                                 IN  Rat(c - actions[k].dividend_amount, c)
                IN  \A i \in 1..Len(ret.rows) :
                        ret.rows[i].adj_factor =
                            IF ret.rows[i].date < actions[k].action_date
                            THEN RMul(rest[i].adj_factor, term)
                            ELSE rest[i].adj_factor

\* C9 witness: a dividend followed by a later split, a bar with a positive
\* close on the dividend date and a bar before it that the dividend rescaled
C9_Witness ==
    /\ FactorsCalled
    /\ Len(actions) = 2
    /\ actions[1].action_type = "dividend"
    /\ actions[2].action_type = "split"
    /\ actions[1].action_date < actions[2].action_date
    /\ \E c \in RawCloseOn(call.prices.rows, actions[1].action_date) : c > 0
    /\ \E r \in Range(ret.rows) :
          /\ r.date < actions[1].action_date
          /\ r.adj_factor # actions[2].ratio

SplitOf2018 == <<CorporateAction(Date(2018, 5, 4), "split", Rat(1, 50), 0)>>

\* C10: in the output of adjust_prices, adj_close = close x factor, adj_open,
\* adj_high, adj_low = raw value x factor and adj_volume = volume / factor;
\* with the single split of ratio 0.02 on 2018-05-04 a bar before it with raw
\* close 2,500,000 has adjusted close 50,000 and a bar after it with raw close
\* 50,000 keeps 50,000.
C10_DerivedFields ==
    call.op = "adjust_prices" =>
        \A i \in 1..Len(ret.rows) :
            LET r == ret.rows[i]
                raw == call.prices.rows[i]
            IN  /\ r.adj_close = RMul(FromInt(raw.close), r.adj_factor)
                /\ r.adj_volume = RDiv(FromInt(raw.volume), r.adj_factor)
                /\ "open" \in call.prices.columns =>
                      /\ r.adj_open = RMul(FromInt(raw.open), r.adj_factor)
                      /\ r.adj_high = RMul(FromInt(raw.high), r.adj_factor)
                      /\ r.adj_low = RMul(FromInt(raw.low), r.adj_factor)
                /\ actions = SplitOf2018 =>
                      /\ (raw.date < Date(2018, 5, 4) /\ raw.close = 2500000)
                            => r.adj_close = FromInt(50000)
                      /\ (raw.date > Date(2018, 5, 4) /\ raw.close = 50000)
                            => r.adj_close = FromInt(50000)

\* C10 witness: the split scenario, with a bar on either side of the split
C10_Witness ==
    /\ call.op = "adjust_prices"
    /\ actions = SplitOf2018
    /\ "open" \in call.prices.columns
    /\ \E r \in Range(ret.rows) :
          r.date < Date(2018, 5, 4) /\ r.close = 2500000 /\ r.volume > 0
    /\ \E r \in Range(ret.rows) : r.date > Date(2018, 5, 4) /\ r.close = 50000

\* the step is a second run of the operation of the last call: on the raw
\* bars of that call, or on the frame it returned
SecondRun ==
    /\ FactorsCalled
    /\ call'.op = call.op
    /\ call'.prices \in {call.prices, ret}

\* C11: idempotence.  A second run of adjust_prices, which computes the
\* factors by calculate_adjustment_factors and the adjusted values from them,
\* finds the ledger the first run was called with and the
\* caller's bars as they were passed, and returns the factors and adjusted
\* values the first run returned, also when it is given the frame the first
\* run returned.
C11_SecondRunIdentical ==
    [][SecondRun =>
          /\ call.prices_after = call.prices
          /\ call'.ledger = call.ledger
          /\ ret' = ret]_vars

\* C11 witness: a second run over a two-action ledger, on the frame the first
\* run returned with a rescaled bar, has returned that frame again
C11_Witness ==
    /\ FactorsCalled
    /\ Len(call.ledger) = 2
    /\ "adj_factor" \in call.prices.columns
    /\ \E r \in Range(call.prices.rows) : r.adj_factor # One /\ r.close > 0
    /\ ret = call.prices

ActionKinds == {"split", "dividend", "rights"}

\* C22: a corporate action whose kind is not one of split, dividend, rights
\* is rejected when it is constructed or added: such an action never enters
\* the ledger (and so is never skipped by the factor computation).
C22_UnknownKindRejected ==
    \A k \in 1..Len(actions) : actions[k].action_type \in ActionKinds

\* the number of times x occurs in a ledger
Count(ledger, x) == Cardinality({k \in 1..Len(ledger) : ledger[k] = x})

\* the actions the last call added, in the order it added them
Added ==
    IF call.op = "add_action" THEN <<call.action>>
    ELSE [k \in 1..Len(call.df.rows) |-> action_of_row(call.df, call.df.rows[k])]

AddCalled == call.op \in {"add_action", "add_actions_from_df"}

\* C27: after any sequence of add_action and add_actions_from_df calls the
\* ledger is sorted ascending by action date and holds exactly the actions
\* that were added, none dropped and none duplicated.
C27_LedgerSortedAndComplete ==
    /\ \A k \in 1..(Len(actions) - 1) :
          actions[k].action_date <= actions[k + 1].action_date
    /\ AddCalled =>
          \A x \in Range(actions) \cup Range(call.ledger) \cup Range(Added) :
              Count(actions, x) = Count(call.ledger, x) + Count(Added, x)

\* C27 witness: an action dated before the one the ledger holds was added
\* and now stands first
C27_Witness ==
    /\ call.op = "add_action"
    /\ Len(call.ledger) = 1
    /\ call.action.action_date < call.ledger[1].action_date
    /\ actions = <<call.action, call.ledger[1]>>

\* C29: for a ledger whose split and rights ratios are positive and raw bars
\* with positive closes, every bar's factor is strictly positive for every
\* dividend amount, so adjusted closes are positive and adj_volume is a
\* finite number (no division by zero).
C29_FactorsPositive ==
    (/\ FactorsCalled
     /\ \A k \in 1..Len(actions) : RLess(FromInt(0), actions[k].ratio)
     /\ \A b \in Range(call.prices.rows) : b.close > 0) =>
        \A r \in Range(ret.rows) :
            /\ RLess(FromInt(0), r.adj_factor)
            /\ RLess(FromInt(0), r.adj_close)
            /\ call.op = "adjust_prices" => r.adj_volume.d # 0

NoActionsSupplied ==
    \/ IsNoneValue(call.corporate_actions)
    \/ call.corporate_actions.rows = <<>>

\* C30: get_adjusted_prices called for any entity with an empty or absent
\* corporate-action table applies no action: every bar gets factor 1 and
\* adjusted values equal to the raw ones.
C30_NoActionsOfItsOwn ==
    (/\ call.op = "get_adjusted_prices"
     /\ NoActionsSupplied
     /\ ~IsNoneValue(call.prices)) =>
        \A r \in Range(ret.rows) :
            /\ r.adj_factor = One
            /\ r.adj_close = FromInt(r.close)
            /\ r.adj_volume = FromInt(r.volume)

----------------------------------------------------------------------------
(* SimpleBacktester.run, with the datasets its caller passes, either as     *)
(* collected or first cut to the listed universe by                         *)
(* apply_survivorship_bias_free                                             *)

RECURSIVE RSum(_)
RSum(s) == IF s = <<>> THEN FromInt(0) ELSE RAdd(s[1], RSum(Tail(s)))

\* np.mean of a non-empty list
Mean(s) == RDiv(RSum(s), FromInt(Len(s)))

\* start_year of run (its default)
StartYear == 2020

\* end_year of run: the periods are StartYear .. LastYear - 1
LastYear == 2022

Years == StartYear..LastYear

MaxPositionChoices == {1, 2}

EntityA == "005930"

EntityB == "001500"

\* all_stocks_with_delisted: one row per entity; EntityB may have left the
\* market
AllStocksTables ==
    {Frame(ListingColumns,
           <<[index |-> 1, code |-> EntityA, listed_at |-> Date(1975, 6, 11),
              delisted_at |-> NaT],
             [index |-> 2, code |-> EntityB, listed_at |-> Date(1999, 9, 1),
              delisted_at |-> d]>>)
        : d \in {NaT, Date(2020, 6, 30), Date(2021, 6, 30)}}

\* the columns of a yearly dataset; jongmok_code stands for the column the
\* source names by the Korean word for "stock code"
DatasetColumns == {"jongmok_code", "return"}

DataRow(i, c, r) == [index |-> i, jongmok_code |-> c, return |-> r]

\* what historical_data may hold for a year; NoneValue: the year is no key.
\* The last frame has no code column at all.
DatasetChoices ==
    {NoneValue,
     Frame(DatasetColumns, <<DataRow(1, EntityA, Rat(1, 2)), DataRow(2, EntityB, Rat(-1, 5))>>),
     Frame(DatasetColumns, <<DataRow(1, EntityA, Rat(-1, 5))>>),
     Frame(DatasetColumns, <<DataRow(1, EntityB, Rat(1, 2))>>),
     Frame({"return"}, <<[index |-> 1, return |-> Rat(1, 2)]>>)}

code_column(df) == IF "jongmok_code" \in df.columns THEN "jongmok_code" ELSE "stock_code"

\* df[df[code_col].isin(codes)]
rows_with_code_in(df, codes) ==
    Frame(df.columns, SelectSeq(df.rows, LAMBDA r : r.jongmok_code \in codes))

\* lines 134-147 for one year of backtest_data
survivorship_filtered(year, df, all_stocks) ==
    LET universe == get_universe_at(Date(year, 12, 31), all_stocks)
    IN  IF code_column(df) \in df.columns
        THEN rows_with_code_in(df, {universe.rows[i].code : i \in 1..Len(universe.rows)})
        ELSE df

apply_survivorship_bias_free(backtest_data, all_stocks) ==
    [y \in {k \in DOMAIN backtest_data : ~IsNoneValue(backtest_data[k])} |->
        survivorship_filtered(y, backtest_data[y], all_stocks)]
    @@ backtest_data

\* what the screening function may do with a dataset: raise, return None, or
\* return a selection of its rows in an order of its own
NoRepeat(s) == \A i, j \in 1..Len(s) : s[i] = s[j] => i = j

ScreeningOutcomes(df) ==
    {[kind |-> "raise"], [kind |-> "None"]}
    \cup {[kind |-> "frame", frame |-> Frame(df.columns, rows)] :
            rows \in {s \in SeqsUpTo(Range(df.rows), Len(df.rows)) : NoRepeat(s)}}

\* line 71
holdings_of(selected) ==
    IF "jongmok_code" \in selected.columns
    THEN [i \in 1..Len(selected.rows) |-> selected.rows[i].jongmok_code]
    ELSE <<>>

\* lines 85-91: the returns of the held entities found in next_data
RECURSIVE realized_returns(_, _)
realized_returns(holdings, next_data) ==
    IF holdings = <<>> THEN <<>>
    ELSE LET stock == SelectSeq(next_data.rows,
                          LAMBDA r : r.jongmok_code = holdings[1])
             rest == realized_returns(Tail(holdings), next_data)
         IN  IF stock # <<>> /\ "return" \in next_data.columns
             THEN <<stock[1].return>> \o rest
             ELSE rest

\* lines 93-96
average_return(returns) == IF returns # <<>> THEN Mean(returns) ELSE FromInt(0)

\* a mutant of recorded: the period return added to the curve
recorded_additive(results, year, avg_return, holdings) ==
    [years |-> Append(results.years, year),
     returns |-> Append(results.returns, avg_return),
     holdings |-> Append(results.holdings, holdings),
     cumulative |-> Append(results.cumulative,
                       RAdd(results.cumulative[Len(results.cumulative)], avg_return))]

\* lines 98-103
recorded(results, year, avg_return, holdings) ==
    [years |-> Append(results.years, year),
     returns |-> Append(results.returns, avg_return),
     holdings |-> Append(results.holdings, holdings),
     cumulative |-> Append(results.cumulative,
                       RMul(results.cumulative[Len(results.cumulative)],
                            RAdd(One, avg_return)))]

\* one turn of the loop of line 55 for b.year, the screening function doing
\* "outcome" (it is not called when the year has no dataset); a KeyError of
\* line 88 leaves run (pc = "raised")
run_period(b, outcome) ==
    LET year == b.year
        skipped == [b EXCEPT !.year = year + 1]
        year_data == b.historical_data[year]
    IN  IF IsNoneValue(year_data) THEN skipped
        ELSE IF outcome.kind = "raise" THEN skipped
        ELSE IF outcome.kind = "None" THEN skipped
        ELSE IF outcome.frame.rows = <<>> THEN skipped
        ELSE LET selected == Frame(outcome.frame.columns,
                                   head(outcome.frame.rows, b.max_positions))
                 holdings == holdings_of(selected)
                 next_data == b.historical_data[year + 1]
             IN  IF IsNoneValue(next_data) THEN skipped
                 ELSE IF holdings # <<>> /\ code_column(next_data) \notin next_data.columns
                 THEN [b EXCEPT !.pc = "raised"]
                 ELSE [b EXCEPT !.year = year + 1,
                                !.results = recorded(b.results, year,
                                    average_return(realized_returns(holdings, next_data)),
                                    holdings)]

\* a mutant of mdd_from: the peak stays the first value of the curve
RECURSIVE mdd_from_first_value(_, _, _, _)
mdd_from_first_value(cumulative, k, peak, max_dd) ==
    IF k > Len(cumulative) THEN max_dd
    ELSE LET dd == RDiv(RSub(peak, cumulative[k]), peak)
         IN  mdd_from_first_value(cumulative, k + 1, peak,
                                  IF RLess(max_dd, dd) THEN dd ELSE max_dd)

\* _calculate_mdd: the loop of lines 124-129 from position k on
RECURSIVE mdd_from(_, _, _, _)
mdd_from(cumulative, k, peak, max_dd) ==
    IF k > Len(cumulative) THEN max_dd
    ELSE LET value == cumulative[k]
             newpeak == IF RLess(peak, value) THEN value ELSE peak
             dd == RDiv(RSub(newpeak, value), newpeak)
         IN  mdd_from(cumulative, k + 1, newpeak,
                      IF RLess(max_dd, dd) THEN dd ELSE max_dd)

calculate_mdd(cumulative) ==
    RMul(mdd_from(cumulative, 1, cumulative[1], FromInt(0)), FromInt(100))

\* np.std(returns) ** 2 (the square root itself is not a rational)
Variance(s) ==
    Mean([i \in 1..Len(s) |-> RMul(RSub(s[i], Mean(s)), RSub(s[i], Mean(s)))])

\* lines 105-117: the result dictionary run returns.  volatility and the
\* Sharpe ratio are kept as the variance they are computed from: sharpe_ratio
\* is 0 when it is 0, otherwise mean / sqrt(variance).
metrics(results) ==
    IF results.returns = <<>> THEN results
    ELSE results @@
         [total_return |->
              RMul(RSub(results.cumulative[Len(results.cumulative)], One), FromInt(100)),
          annual_return |-> RMul(Mean(results.returns), FromInt(100)),
          variance |-> Variance(results.returns),
          sharpe_is_zero |-> ~RLess(FromInt(0), Variance(results.returns)),
          max_drawdown |-> calculate_mdd(results.cumulative),
          win_rate |->
              RMul(Rat(Cardinality({i \in 1..Len(results.returns) :
                                      RLess(FromInt(0), results.returns[i])}),
                       Len(results.returns)), FromInt(100))]

InitBacktest ==
    /\ financials = NoneValue
    /\ cached_delisted = NoneValue
    /\ actions = <<>>
    /\ bt \in {[pc |-> "input",
                all_stocks |-> a,
                bias_free |-> FALSE,
                historical_data |-> h,
                max_positions |-> n,
                year |-> StartYear,
                screened |-> [kind |-> "not called"],
                results |-> [years |-> <<>>, returns |-> <<>>, holdings |-> <<>>,
                             cumulative |-> <<One>>]]
                 : a \in AllStocksTables, h \in [Years -> DatasetChoices],
                   n \in MaxPositionChoices}
    /\ call = NoCall
    /\ ret = NoneValue

\* the caller cuts the datasets to the listed universe before the run
ApplySurvivorshipBiasFree ==
    /\ bt.pc = "input"
    /\ ~bt.bias_free
    /\ bt' = [bt EXCEPT !.bias_free = TRUE,
                        !.historical_data =
                            apply_survivorship_bias_free(bt.historical_data, bt.all_stocks)]
    /\ call' = [op |-> "apply_survivorship_bias_free"]
    /\ ret' = NoneValue
    /\ UNCHANGED <<financials, cached_delisted, actions>>

\* run(screening_func, historical_data, StartYear, LastYear) is entered.
\* bt.screened is what the screening function did in the latest turn of the
\* loop.
RunStart ==
    /\ bt.pc = "input"
    /\ bt' = [bt EXCEPT !.pc = "loop"]
    /\ call' = [op |-> "run"]
    /\ ret' = NoneValue
    /\ UNCHANGED <<financials, cached_delisted, actions>>

RunPeriod ==
    /\ bt.pc = "loop"
    /\ bt.year < LastYear
    /\ \E outcome \in (IF IsNoneValue(bt.historical_data[bt.year])
                       THEN {[kind |-> "not called"]}
                       ELSE ScreeningOutcomes(bt.historical_data[bt.year])) :
          bt' = [run_period(bt, outcome) EXCEPT !.screened = outcome]
    /\ UNCHANGED <<financials, cached_delisted, actions, call, ret>>

RunReturn ==
    /\ bt.pc = "loop"
    /\ bt.year = LastYear
    /\ bt' = [bt EXCEPT !.pc = "done"]
    /\ ret' = metrics(bt.results)
    /\ UNCHANGED <<financials, cached_delisted, actions, call>>

NextBacktest == ApplySurvivorshipBiasFree \/ RunStart \/ RunPeriod \/ RunReturn

SpecBacktest == InitBacktest /\ [][NextBacktest]_vars

----------------------------------------------------------------------------
(* Claims about the backtest run                                            *)

\* the entity is in the listed universe of the caller's stock table at d
InUniverse(all_stocks, c, d) ==
    \E r \in Range(get_universe_at(d, all_stocks).rows) : r.code = c

\* the held entities whose return entered the average of the period of year y
Contributors(b, y, holdings) ==
    {c \in Range(holdings) :
        /\ "return" \in b.historical_data[y + 1].columns
        /\ \E r \in Range(b.historical_data[y + 1].rows) : r.jongmok_code = c}

\* C6: the universe filter covers selection and realization.  For every
\* recorded period, every held entity was listed at the period's evaluation
\* date (December 31 of its year), and every entity whose return enters the
\* period's average is in the listed universe of the next period.
C6_UniverseCoversSelectionAndRealization ==
    ~IsNoneValue(bt) =>
        \A i \in 1..Len(bt.results.years) :
            LET y == bt.results.years[i]
                held == bt.results.holdings[i]
            IN  /\ \A c \in Range(held) :
                      InUniverse(bt.all_stocks, c, Date(y, 12, 31))
                /\ \A c \in Contributors(bt, y, held) :
                      InUniverse(bt.all_stocks, c, Date(y + 1, 12, 31))

\* the product of (1 + r) over the first k period returns
RECURSIVE Growth(_, _)
Growth(returns, k) ==
    IF k = 0 THEN One ELSE RMul(Growth(returns, k - 1), RAdd(One, returns[k]))

RunReturned == ~IsNoneValue(bt) /\ bt.pc = "done"

\* C12: the cumulative curve starts as [1] and every recorded period appends
\* cumulative[i-1] x (1 + period_return): after k recorded periods it has k+1
\* entries, its last entry is the product of (1 + r_i), and total_return is
\* that entry minus 1 (in percent).  Returns +50% and -20% give the curve
\* [1, 1.5, 1.2] and a total return of 20%.
C12_CurveCompounds ==
    ~IsNoneValue(bt) =>
        LET r == bt.results.returns
            c == bt.results.cumulative
        IN  /\ Len(c) = Len(r) + 1
            /\ c[1] = One
            /\ \A i \in 1..Len(r) : c[i + 1] = RMul(c[i], RAdd(One, r[i]))
            /\ c[Len(c)] = Growth(r, Len(r))
            /\ (RunReturned /\ r # <<>>) =>
                  ret.total_return = RMul(RSub(Growth(r, Len(r)), One), FromInt(100))
            /\ r = <<Rat(1, 2), Rat(-1, 5)>> =>
                  /\ c = <<One, Rat(3, 2), Rat(6, 5)>>
                  /\ RunReturned => ret.total_return = FromInt(20)

\* C12 witness: run has returned after recording +50% and then -20%
C12_Witness ==
    /\ RunReturned
    /\ bt.results.returns = <<Rat(1, 2), Rat(-1, 5)>>
    /\ ret.total_return = FromInt(20)

\* the return of entity c in a dataset that has a row of it
ReturnIn(df, c) == (CHOOSE r \in Range(df.rows) : r.jongmok_code = c).return

\* the held entities that have a return in the dataset of year y + 1, in the
\* order they are held
HeldWithData(b, y, holdings) ==
    SelectSeq(holdings, LAMBDA c : c \in Contributors(b, y, holdings))

\* C13: for every recorded period the period return is the arithmetic mean of
\* the returns of exactly the held entities that have a return in the next
\* period's dataset, and there is at least one such entity: no period is
\* recorded with return 0 because its held entities lack next-period data.
C13_MeanOverEntitiesWithData ==
    ~IsNoneValue(bt) =>
        \A i \in 1..Len(bt.results.years) :
            LET y == bt.results.years[i]
                counted == HeldWithData(bt, y, bt.results.holdings[i])
            IN  /\ counted # <<>>
                /\ bt.results.returns[i] =
                      Mean([k \in 1..Len(counted) |->
                               ReturnIn(bt.historical_data[y + 1], counted[k])])

\* the screening function was not called, raised, or selected nothing
BadOutcome(o) ==
    \/ o.kind \in {"not called", "raise", "None"}
    \/ o.kind = "frame" /\ o.frame.rows = <<>>

\* C14: a single bad period never aborts the run.  A turn of the loop never
\* ends in an exception leaving run, and a turn for a period whose dataset is
\* absent or whose screening raises or selects nothing records nothing and
\* goes on to the next period.
C14_BadPeriodNeverAborts ==
    [][(~IsNoneValue(bt) /\ bt.pc = "loop" /\ bt.year < LastYear) =>
          /\ bt'.pc # "raised"
          /\ BadOutcome(bt'.screened) =>
                /\ bt'.results = bt.results
                /\ bt'.year = bt.year + 1
                /\ bt'.pc = "loop"]_vars

\* a turn of the loop has been taken; the latest was for TurnYear
TurnTaken ==
    /\ ~IsNoneValue(bt)
    /\ \/ bt.pc = "raised"
       \/ bt.pc \in {"loop", "done"} /\ bt.year > StartYear

TurnYear == IF bt.pc = "raised" THEN bt.year ELSE bt.year - 1

NonEmptySelection == bt.screened.kind = "frame" /\ bt.screened.frame.rows # <<>>

\* the entity ids of the first n entries of a selection, in its order (a
\* selection without the id column names no entity)
FirstIds(selection, n) ==
    IF "jongmok_code" \in selection.columns
    THEN [i \in 1..(IF Len(selection.rows) < n THEN Len(selection.rows) ELSE n) |->
             selection.rows[i].jongmok_code]
    ELSE <<>>

LatestRecorded ==
    /\ bt.results.years # <<>>
    /\ bt.results.years[Len(bt.results.years)] = TurnYear

\* C15: every period whose dataset exists and for which the screening
\* function returns a non-empty selection is recorded, with the entity ids of
\* the truncated selection as its holdings, whether or not a dataset of the
\* following period exists.
C15_SelectedPeriodRecorded ==
    (TurnTaken /\ NonEmptySelection) =>
        /\ LatestRecorded
        /\ bt.results.holdings[Len(bt.results.holdings)] =
              FirstIds(bt.screened.frame, bt.max_positions)

\* C16: every recorded period holds at most max_positions entity ids, and
\* they are the first max_positions entries of the screening function's
\* result in the order it returned them.
C16_HoldingsAreFirstEntries ==
    ~IsNoneValue(bt) =>
        /\ \A i \in 1..Len(bt.results.holdings) :
              Len(bt.results.holdings[i]) <= bt.max_positions
        /\ (TurnTaken /\ LatestRecorded /\ NonEmptySelection) =>
              bt.results.holdings[Len(bt.results.holdings)] =
                  FirstIds(bt.screened.frame, bt.max_positions)

\* C16 witness: the screening function returned two entities, not in the
\* order of the dataset, one position is allowed and the first is held
C16_Witness ==
    /\ TurnTaken /\ LatestRecorded /\ NonEmptySelection
    /\ bt.max_positions = 1
    /\ Len(bt.screened.frame.rows) = 2
    /\ bt.screened.frame.rows[1].jongmok_code = EntityB
    /\ bt.results.holdings[Len(bt.results.holdings)] = <<EntityB>>

\* the fractional declines (c[i] - c[j]) / c[i] of a curve over the pairs
\* i <= j
PairDeclines(c) ==
    {RDiv(RSub(c[p[1]], c[p[2]]), c[p[1]]) :
        p \in {q \in (1..Len(c)) \X (1..Len(c)) : q[1] <= q[2]}}

Largest(S) == CHOOSE x \in S : \A y \in S : ~RLess(x, y)

NeverDeclines(c) == \A i \in 1..(Len(c) - 1) : ~RLess(c[i + 1], c[i])

\* C24: the max_drawdown run returns is the largest (c[i] - c[j]) / c[i] over
\* the pairs i <= j of the cumulative curve, in percent; it is 0 when the
\* curve never declines and 20 for the curve [1.0, 1.5, 1.2].
C24_MddIsLargestDecline ==
    (RunReturned /\ bt.results.returns # <<>>) =>
        LET c == bt.results.cumulative
        IN  /\ ret.max_drawdown = RMul(Largest(PairDeclines(c)), FromInt(100))
            /\ NeverDeclines(c) => ret.max_drawdown = FromInt(0)
            /\ c = <<One, Rat(3, 2), Rat(6, 5)>> => ret.max_drawdown = FromInt(20)

\* C24 witness: run has returned the curve [1.0, 1.5, 1.2] with a maximum
\* drawdown of 20 percent
C24_Witness ==
    /\ RunReturned
    /\ bt.results.cumulative = <<One, Rat(3, 2), Rat(6, 5)>>
    /\ ret.max_drawdown = FromInt(20)

RunEntered == ~IsNoneValue(bt) /\ bt.pc # "input"

StrictlyIncreasing(s) == \A i \in 1..(Len(s) - 1) : s[i] < s[i + 1]

\* C26: run terminates.  Once entered, it has either returned its result or
\* is in its loop with a period of the range to consider or the result to
\* return; the periods it has recorded are strictly increasing, all earlier
\* than the period it considers next, which never passes the end of the
\* range; the result it returns holds those periods.
C26_RunTerminatesInOrder ==
    RunEntered =>
        /\ bt.pc = "done" \/ (bt.pc = "loop" /\ bt.year <= LastYear)
        /\ StrictlyIncreasing(bt.results.years)
        /\ \A i \in 1..Len(bt.results.years) :
              StartYear <= bt.results.years[i] /\ bt.results.years[i] < bt.year
        /\ bt.year <= LastYear
        /\ bt.pc = "done" => ret.years = bt.results.years

----------------------------------------------------------------------------
(* The operations of the core side by side                                  *)

\* one object of the core in use at a time: a point-in-time view over a
\* financial table, get_universe_at over candidate tables, a calculator with
\* its ledger, or a backtest
InitCore == InitPITQueries \/ InitBacktest

NextCore ==
    \/ IsNoneValue(bt) /\ actions = <<>> /\ GetAvailableFinancials
    \/ IsNoneValue(bt) /\ IsNoneValue(financials) /\ actions = <<>> /\ GetUniverseAt
    \/ IsNoneValue(bt) /\ IsNoneValue(financials) /\ NextAdj
    \/ ~IsNoneValue(bt) /\ NextBacktest

SpecCore == InitCore /\ [][NextCore]_vars

\* every row of the output carries the columns of the input row unchanged
RawColumnsEqual(prices, result) ==
    /\ Len(result.rows) = Len(prices.rows)
    /\ prices.columns \subseteq result.columns
    /\ \A i \in 1..Len(prices.rows) :
          \A col \in prices.columns \cup {"index"} :
              result.rows[i][col] = prices.rows[i][col]

\* C25: no operation changes its inputs.  A call of
\* calculate_adjustment_factors or adjust_prices leaves the ledger and the
\* caller's price frame as they were and returns rows whose raw columns equal
\* the input's; get_universe_at leaves the candidate table,
\* get_available_financials the financial table, and every step of run the
\* per-period datasets and the candidate table as they were.
C25_InputsUnchanged ==
    [][/\ call'.op \in {"calculate_adjustment_factors", "adjust_prices"} =>
            /\ actions' = actions
            /\ call'.prices_after = call'.prices
            /\ RawColumnsEqual(call'.prices, ret')
       /\ call'.op = "get_universe_at" =>
            call'.all_stocks_after = call'.all_stocks
       /\ call'.op = "get_available_financials" => financials' = financials
       /\ (~IsNoneValue(bt') /\ bt'.pc # "input") =>
            /\ bt'.historical_data = bt.historical_data
            /\ bt'.all_stocks = bt.all_stocks]_vars

\* C25 witness: adjust_prices has returned adjusted rows computed from a
\* ledger that holds actions, and the caller's frame is as it was passed
C25_Witness ==
    /\ call.op = "adjust_prices"
    /\ actions # <<>>
    /\ \E i \in 1..Len(ret.rows) : ret.rows[i].adj_factor # One
    /\ call.prices_after = call.prices
    /\ actions = call.ledger

====
